---- MODULE Spec2Model ----
(***************************************************************************)
(* go-dep-updater: a directory walk that, for every go.mod found, decides  *)
(* whether a dependency is pinned to a version other than the target and,  *)
(* if so, runs a linear pipeline of git / go commands (src/main.go).       *)
(*                                                                         *)
(* Go strings are modelled as sequences of one-character strings, so that  *)
(* strings.Contains, strings.Split, strings.Fields, strings.TrimSpace,     *)
(* strings.TrimSuffix and fmt.Sprintf are computed, not assumed.           *)
(***************************************************************************)
EXTENDS Integers, Sequences, FiniteSets, TLC

\* ------------------------------------------------------------------ bounds
\* number of entries filepath.Walk reports in one run
NumEntries == 3
\* longest manifest content (in characters) the inspector is applied to
MaxDataLen == 5
\* number of times the program is run on the same tree
MaxRuns == 2

\* --------------------------------------------------------------- constants
VersionUnknown == <<"U","n","k","n","o","w","n">>
VersionNotFound == <<"N","o","t","F","o","u","n","d">>
Master == <<"m","a","s","t","e","r">>
ConfirmEach == <<"c","o","n","f","i","r","m","-","e","a","c","h">>

\* ------------------------------------------------------- package "strings"
\* unicode.IsSpace restricted to the characters that occur in the model
IsSpace(c) == c \in {" ", "\n", "\t", "\r"}

\* s[i:] in Go (0-based i)
From(s, i) == SubSeq(s, i + 1, Len(s))

HasPrefix(s, p) == Len(s) >= Len(p) /\ SubSeq(s, 1, Len(p)) = p

HasSuffix(s, p) == Len(s) >= Len(p) /\ SubSeq(s, Len(s) - Len(p) + 1, Len(s)) = p

\* strings.Contains(s, substr)
Contains(s, substr) == \E i \in 0..Len(s) : HasPrefix(From(s, i), substr)

\* strings.Split(s, "\n"): the pieces between newlines, empty pieces kept
RECURSIVE SplitFrom(_, _, _)
SplitFrom(s, i, cur) ==
  IF i > Len(s) THEN <<cur>>
  ELSE IF s[i] = "\n" THEN <<cur>> \o SplitFrom(s, i + 1, <<>>)
  ELSE SplitFrom(s, i + 1, Append(cur, s[i]))

Split(s) == SplitFrom(s, 1, <<>>)

\* strings.Fields(s): maximal runs of non-space characters
RECURSIVE FieldsFrom(_, _, _)
FieldsFrom(s, i, cur) ==
  IF i > Len(s) THEN (IF cur = <<>> THEN <<>> ELSE <<cur>>)
  ELSE IF IsSpace(s[i])
       THEN (IF cur = <<>> THEN <<>> ELSE <<cur>>) \o FieldsFrom(s, i + 1, <<>>)
       ELSE FieldsFrom(s, i + 1, Append(cur, s[i]))

Fields(s) == FieldsFrom(s, 1, <<>>)

\* strings.TrimSpace(s)
RECURSIVE TrimLeft(_)
TrimLeft(s) == IF s # <<>> /\ IsSpace(Head(s)) THEN TrimLeft(Tail(s)) ELSE s

RECURSIVE TrimRight(_)
TrimRight(s) ==
  IF s # <<>> /\ IsSpace(s[Len(s)]) THEN TrimRight(SubSeq(s, 1, Len(s) - 1)) ELSE s

TrimSpace(s) == TrimRight(TrimLeft(s))

\* strings.TrimSuffix(s, suffix)
TrimSuffix(s, suffix) ==
  IF HasSuffix(s, suffix) THEN SubSeq(s, 1, Len(s) - Len(suffix)) ELSE s

\* ---------------------------------------------------------------- os files
\* the outcome of os.ReadFile on a path: an error, or the bytes read
Unreadable == [err |-> TRUE, data |-> <<>>]

FileOf(d) == [err |-> FALSE, data |-> d]

\* ------------------------------------------------------- version inspector
\* a fault: a matching line without a second token is passed over
RECURSIVE ScanLinesMut(_, _, _)
ScanLinesMut(lines, k, dependency) ==
  IF k > Len(lines) THEN VersionUnknown
  ELSE IF Contains(lines[k], dependency) /\ Len(Fields(lines[k])) > 1
       THEN Fields(lines[k])[2]
       ELSE ScanLinesMut(lines, k + 1, dependency)

\* the for loop of getDependencyVersion from line k of lines on
RECURSIVE ScanLines(_, _, _)
ScanLines(lines, k, dependency) ==
  IF k > Len(lines) THEN VersionUnknown
  ELSE IF Contains(lines[k], dependency)
       THEN LET parts == Fields(lines[k])
            IN  IF Len(parts) > 1 THEN parts[2] ELSE VersionNotFound
       ELSE ScanLines(lines, k + 1, dependency)

getDependencyVersion(file, dependency) ==
  IF file.err THEN VersionUnknown
  ELSE ScanLines(Split(file.data), 1, dependency)

\* ---------------------------------------------------------- upgrade decision
\* a fault: the classification of the current version is not consulted
shouldUpgradeMut(file, dependency, targetVersion) ==
  LET currentVersion == getDependencyVersion(file, dependency)
  IN  [version |-> currentVersion, upgrade |-> currentVersion # targetVersion]

\* a fault: a current version equal to the target still counts as outdated
shouldUpgradeAlwaysMut(file, dependency, targetVersion) ==
  LET currentVersion == getDependencyVersion(file, dependency)
      isKnownVersion == currentVersion # VersionUnknown /\ currentVersion # VersionNotFound
  IN  [version |-> currentVersion, upgrade |-> isKnownVersion]

shouldUpgrade(file, dependency, targetVersion) ==
  LET currentVersion == getDependencyVersion(file, dependency)
      isKnownVersion == currentVersion # VersionUnknown /\ currentVersion # VersionNotFound
  IN  [version |-> currentVersion,
       upgrade |-> isKnownVersion /\ currentVersion # targetVersion]

\* a fault: the test inverted
hasUncommittedChangesMut(out) == Len(out) = 0

\* clean-tree test: len(out) > 0 on the captured output of git status
hasUncommittedChanges(out) == Len(out) > 0


\* the line read by readInput: bufio ReadString('\n') returns text or an error
ReadError == [err |-> TRUE, data |-> <<>>]

\* readInput: "" on a read error, otherwise the text without its final newline
readInput(text) == IF text.err THEN <<>> ELSE TrimSuffix(text.data, <<"\n">>)

\* fmt.Sprintf("%s@%s", dependency, targetVersion)
ModuleQuery(dependency, targetVersion) == dependency \o <<"@">> \o targetVersion

\* strings.Join(parts, sep)
RECURSIVE Join(_, _)
Join(parts, sep) ==
  IF parts = <<>> THEN <<>>
  ELSE IF Len(parts) = 1 THEN parts[1]
  ELSE parts[1] \o sep \o Join(Tail(parts), sep)

\* the line requires the dependency: the name is a token and a version follows
Requires(line, dep) ==
  \E n \in 1..(Len(Fields(line)) - 1) : Fields(line)[n] = dep

\* the line with the version after the dependency name replaced
PinLine(line, dep, target) ==
  LET parts == Fields(line)
  IN  IF Requires(line, dep)
      THEN Join([n \in 1..Len(parts) |->
                   IF n > 1 /\ parts[n - 1] = dep THEN target ELSE parts[n]],
                <<" ">>)
      ELSE line

\* what a successful `go get dependency@target` leaves in go.mod: the
\* requirement of the dependency names the target version (a requirement is
\* added if there was none)
PinTo(data, dep, target) ==
  LET lines == Split(data)
  IN  IF \E k \in 1..Len(lines) : Requires(lines[k], dep)
      THEN Join([k \in 1..Len(lines) |-> PinLine(lines[k], dep, target)], <<"\n">>)
      ELSE (IF data = <<>> THEN <<>> ELSE data \o <<"\n">>) \o dep \o <<" ">> \o target

\* a fault: everything in the working tree is staged
AddPathspecsMut == <<".">>

\* the paths handed to git add
AddPathspecs == <<"go.mod", "go.sum">>

\* a fault: the message names the dependency only
commitMessageMut(dependency, targetVersion) ==
  <<"U","p","d","a","t","e","d"," ">> \o dependency

\* fmt.Sprintf("Updated %s to version %s", dependency, targetVersion)
commitMessage(dependency, targetVersion) ==
  <<"U","p","d","a","t","e","d"," ">> \o dependency
    \o <<" ","t","o"," ","v","e","r","s","i","o","n"," ">> \o targetVersion

\* directoryHasFile on the outcome of os.Stat: "ok" (err == nil),
\* "notexist" (os.IsNotExist(err)) or "error" (any other error)
directoryHasFile(stat) == IF stat = "notexist" THEN FALSE ELSE TRUE

\* ------------------------------------------------------------ model inputs
\* the command line of the pipeline runs: dependency "b", target version "1"
Dep == <<"b">>

Target == <<"1">>

ArgChoices ==
  { <<<<"p">>, <<"r">>, Dep>>,
    <<<<"p">>, <<"r">>, Dep, Target>>,
    <<<<"p">>, <<"r">>, Dep, Target, ConfirmEach>>,
    <<<<"p">>, <<"r">>, Dep, Target, <<"c","o","n","f","i","r","m">>>> }

\* what filepath.Walk hands to the callback: (info, err) and, for a file,
\* what os.ReadFile will return for it
Entry(e, d, n, f) == [err |-> e, isDir |-> d, name |-> n, file |-> f]

ManifestFiles ==
  { Unreadable,                         \* cannot be read
    FileOf(<<"b">>),                    \* dependency is the only token
    FileOf(<<"b"," ","1">>),            \* pinned to the target
    FileOf(<<"m","\n","b"," ","2">>) }  \* pinned to another version

EntryChoices ==
  { Entry(TRUE, FALSE, "", Unreadable),
    Entry(FALSE, TRUE, "dir", Unreadable) }
  \cup { Entry(FALSE, FALSE, "go.mod", f) : f \in ManifestFiles }

\* captured output of git status --porcelain
StatusOutputs == { <<>>, <<" ","M"," ","x","\n">> }

\* captured output of git rev-parse --abbrev-ref HEAD
BranchOutputs == { Master \o <<"\n">>, <<"d","e","v","\n">> }

\* what the user may type at the prompt
InputTexts ==
  { [err |-> FALSE, data |-> <<"y","\n">>],
    [err |-> FALSE, data |-> <<"y","e","s","\n">>],
    [err |-> FALSE, data |-> <<"Y","\n">>],
    ReadError }

StatResults == {"ok", "notexist", "error"}

\* inputs of the inspector when it is checked on its own
Chars == {"a", "v", " ", "\n"}

AllData == UNION { [1..n -> Chars] : n \in 0..MaxDataLen }

InspectFiles == {Unreadable} \cup { FileOf(d) : d \in AllData }

InspectDeps == { <<"a">>, <<"a","v">> }

InspectTargets == { <<"v">>, <<"a">>, VersionUnknown }

\* -------------------------------------------------------------------- state
VARIABLES
  osArgs,      \* os.Args
  walk,        \* the entries filepath.Walk reports, in traversal order
  idx,         \* the entry the walk is at
  pc,          \* position of main / of the callback's pipeline
  walkErr,     \* the error filepath.Walk returned ("nil" while none)
  exitCode,    \* process exit status once main has returned, else "running"
  outcome,     \* per entry: how the callback ended for it ("none": not called)
  cur,         \* the entry of the callback in progress or last returned
  version,     \* currentVersion that shouldUpgrade returned to that callback
  prompts,     \* the answers readInput returned to it
  calls,       \* the external commands it executed, in order
  statRes,     \* the outcome of its os.Stat on main.go
  fnIn,        \* input of the inspector / decision checked on their own
  fnOut,       \* their result
  run,         \* which run of the program on this tree this is
  late         \* the entries an earlier run left updated but not pushed

vars == <<osArgs, walk, idx, pc, walkErr, exitCode, outcome, cur, version,
          prompts, calls, statRes, fnIn, fnOut, run, late>>

\* what one callback invocation observes; nothing of it outlives the callback
cbVars == <<version, prompts, calls, statRes>>

fnVars == <<fnIn, fnOut>>

runVars == <<run, late>>

NoInput == [file |-> Unreadable, dependency |-> <<>>, targetVersion |-> <<>>]

NoOutput == [op |-> "none", version |-> <<>>, upgrade |-> FALSE]

Entries == 1..NumEntries

dependency == osArgs[3]

targetVersion == osArgs[4]

\* a fault: any fourth argument turns the confirmation on
confirmBeforeEachMut == Len(osArgs) >= 5

confirmBeforeEach == Len(osArgs) >= 5 /\ osArgs[5] = ConfirmEach

Init ==
  /\ osArgs \in ArgChoices
  /\ walk \in [Entries -> EntryChoices]
  /\ idx = 1
  /\ pc = "main"
  /\ walkErr = "nil"
  /\ exitCode = "running"
  /\ outcome = [i \in Entries |-> "none"]
  /\ cur = 0
  /\ version = <<>>
  /\ prompts = <<>>
  /\ calls = <<>>
  /\ statRes = "unchecked"
  /\ fnIn = NoInput
  /\ fnOut = NoOutput
  /\ run = 1
  /\ late = {}

\* ------------------------------------------------------------ executeCommand
\* one run of cmd.CombinedOutput(): the command, its argument, and what the
\* external tool answered; cmd.Dir is the directory of the entry's project
Cmd(c, a, e, o) == [dir |-> idx, cmd |-> c, arg |-> a, err |-> e, out |-> o]

Exec(cs) == calls' = calls \o cs

\* a callback that is over at once: nothing is carried over from the
\* previous one and nothing is observed
Enter ==
  /\ cur' = idx
  /\ version' = <<>>
  /\ prompts' = <<>>
  /\ calls' = <<>>
  /\ statRes' = "unchecked"

\* ------------------------------------------------------- callback returns
\* a fault: a failed walk makes the process exit with status 1
ReturnErrExitMut(o, e) ==
  /\ outcome' = [outcome EXCEPT ![idx] = o]
  /\ walkErr' = e
  /\ pc' = "exit"
  /\ exitCode' = 1
  /\ UNCHANGED idx

\* a fault: the error of the callback is dropped and the walk goes on
ReturnErrMut(o, e) ==
  /\ outcome' = [outcome EXCEPT ![idx] = o]
  /\ idx' = idx + 1
  /\ pc' = "walk"
  /\ UNCHANGED <<walkErr, exitCode>>

\* "return err" (non-nil): filepath.Walk stops and returns it; main logs
\* "Error walking the path" and returns
ReturnErr(o, e) ==
  /\ outcome' = [outcome EXCEPT ![idx] = o]
  /\ walkErr' = e
  /\ pc' = "exit"
  /\ exitCode' = 0
  /\ UNCHANGED idx

\* a fault: a skipped project ends the walk
ReturnNilMut(o) == ReturnErr(o, "aborted")

\* "return nil": filepath.Walk goes on to the next entry
ReturnNil(o) ==
  /\ outcome' = [outcome EXCEPT ![idx] = o]
  /\ idx' = idx + 1
  /\ pc' = "walk"
  /\ UNCHANGED <<walkErr, exitCode>>

\* the callback goes on to its next statement
Goto(l) ==
  /\ pc' = l
  /\ UNCHANGED <<idx, walkErr, exitCode, outcome>>

\* ---------------------------------------------------------------------- main
\* argument check and start of the walk
main ==
  /\ pc = "main"
  /\ IF Len(osArgs) < 4
     THEN pc' = "exit" /\ exitCode' = 0
     ELSE pc' = "walk" /\ UNCHANGED exitCode
  /\ UNCHANGED <<osArgs, walk, idx, walkErr, outcome, cur, cbVars, fnVars, runVars>>

\* the walk has no entry left: Walk returns nil and main returns
WalkEnd ==
  /\ pc = "walk"
  /\ idx > NumEntries
  /\ pc' = "exit"
  /\ exitCode' = 0
  /\ UNCHANGED <<osArgs, walk, idx, walkErr, outcome, cur, cbVars, fnVars, runVars>>

\* a fault: the traversal error is swallowed and the walk goes on
WalkErrorMut ==
  /\ pc = "walk"
  /\ idx <= NumEntries
  /\ walk[idx].err
  /\ Enter
  /\ ReturnNil("traversal-error")
  /\ UNCHANGED <<osArgs, walk, fnVars, runVars>>

\* callback called with err != nil
WalkError ==
  /\ pc = "walk"
  /\ idx <= NumEntries
  /\ walk[idx].err
  /\ Enter
  /\ ReturnErr("traversal-error", "traversal")
  /\ UNCHANGED <<osArgs, walk, fnVars, runVars>>

\* callback called for a directory or for a file not named go.mod
WalkOther ==
  /\ pc = "walk"
  /\ idx <= NumEntries
  /\ ~walk[idx].err
  /\ ~(~walk[idx].isDir /\ walk[idx].name = "go.mod")
  /\ Enter
  /\ ReturnNil("not-a-manifest")
  /\ UNCHANGED <<osArgs, walk, fnVars, runVars>>

\* step 1: callback called for a go.mod file, shouldUpgrade decides
Decide ==
  /\ pc = "walk"
  /\ idx <= NumEntries
  /\ ~walk[idx].err
  /\ ~walk[idx].isDir /\ walk[idx].name = "go.mod"
  /\ cur' = idx
  /\ prompts' = <<>>
  /\ calls' = <<>>
  /\ statRes' = "unchecked"
  /\ LET d == shouldUpgrade(walk[idx].file, dependency, targetVersion)
     IN  /\ version' = d.version
         /\ IF ~d.upgrade
            THEN ReturnNil("skipped-no-upgrade-needed")
            ELSE Goto(IF confirmBeforeEach THEN "confirm" ELSE "status")
  /\ UNCHANGED <<osArgs, walk, fnVars, runVars>>

\* step 2: the confirmation prompt
Confirm ==
  /\ pc = "confirm"
  /\ \E text \in InputTexts :
       LET answer == readInput(text)
       IN  /\ prompts' = Append(prompts, answer)
           /\ IF answer # <<"y">> /\ answer # <<"y","e","s">>
              THEN ReturnNil("skipped-by-user")
              ELSE Goto("status")
  /\ UNCHANGED <<osArgs, walk, cur, version, calls, statRes, fnVars, runVars>>

\* a fault: a status query that fails counts as uncommitted changes
CheckCleanTreeMut ==
  /\ pc = "status"
  /\ \E e \in BOOLEAN, out \in StatusOutputs :
       /\ Exec(<<Cmd("git status --porcelain", <<>>, e, out)>>)
       /\ IF e \/ hasUncommittedChanges(out)
          THEN ReturnNil("skipped-uncommitted-changes")
          ELSE Goto("branch")
  /\ UNCHANGED <<osArgs, walk, cur, version, prompts, statRes, fnVars, runVars>>

\* step 3: git status --porcelain, its error dropped
CheckCleanTree ==
  /\ pc = "status"
  /\ \E e \in BOOLEAN, out \in StatusOutputs :
       /\ Exec(<<Cmd("git status --porcelain", <<>>, e, out)>>)
       /\ IF hasUncommittedChanges(out)
          THEN ReturnNil("skipped-uncommitted-changes")
          ELSE Goto("branch")
  /\ UNCHANGED <<osArgs, walk, cur, version, prompts, statRes, fnVars, runVars>>

\* a fault: the error of the branch query is ignored, and the empty branch
\* name it comes with is not "master"
currentGitBranchMut ==
  /\ pc = "branch"
  /\ \/ /\ Exec(<<Cmd("git rev-parse --abbrev-ref HEAD", <<>>, TRUE, <<>>)>>)
        /\ Goto("checkout")
     \/ \E out \in BranchOutputs :
          /\ Exec(<<Cmd("git rev-parse --abbrev-ref HEAD", <<>>, FALSE, out)>>)
          /\ Goto(IF TrimSpace(out) # Master THEN "checkout" ELSE "pull")
  /\ UNCHANGED <<osArgs, walk, cur, version, prompts, statRes, fnVars, runVars>>

\* step 4a: git rev-parse --abbrev-ref HEAD
currentGitBranch ==
  /\ pc = "branch"
  /\ \/ /\ Exec(<<Cmd("git rev-parse --abbrev-ref HEAD", <<>>, TRUE, <<>>)>>)
        /\ ReturnNil("skipped-branch-error")
     \/ \E out \in BranchOutputs :
          /\ Exec(<<Cmd("git rev-parse --abbrev-ref HEAD", <<>>, FALSE, out)>>)
          /\ Goto(IF TrimSpace(out) # Master THEN "checkout" ELSE "pull")
  /\ UNCHANGED <<osArgs, walk, cur, version, prompts, statRes, fnVars, runVars>>

\* step 4b: git checkout master
gitCheckoutMaster ==
  /\ pc = "checkout"
  /\ \E e \in BOOLEAN :
       /\ Exec(<<Cmd("git checkout master", <<>>, e, <<>>)>>)
       /\ IF e THEN ReturnNil("skipped-branch-error") ELSE Goto("pull")
  /\ UNCHANGED <<osArgs, walk, cur, version, prompts, statRes, fnVars, runVars>>

\* a fault: the error of git pull is ignored
gitPullMut ==
  /\ pc = "pull"
  /\ \E e \in BOOLEAN :
       /\ Exec(<<Cmd("git pull", <<>>, e, <<>>)>>)
       /\ Goto("goget")
  /\ UNCHANGED <<osArgs, walk, cur, version, prompts, statRes, fnVars, runVars>>

\* a fault: a failed git pull is tried again
gitPullRetryMut ==
  /\ pc = "pull"
  /\ \E e \in BOOLEAN :
       /\ Exec(<<Cmd("git pull", <<>>, e, <<>>)>>)
       /\ Goto(IF e THEN "pull" ELSE "goget")
  /\ UNCHANGED <<osArgs, walk, cur, version, prompts, statRes, fnVars, runVars>>

\* step 5: git pull
gitPull ==
  /\ pc = "pull"
  /\ \E e \in BOOLEAN :
       /\ Exec(<<Cmd("git pull", <<>>, e, <<>>)>>)
       /\ IF e THEN ReturnNil("failed-pull") ELSE Goto("goget")
  /\ UNCHANGED <<osArgs, walk, cur, version, prompts, statRes, fnVars, runVars>>

\* step 6: go get dependency@targetVersion, then go mod tidy; a go get that
\* succeeds has rewritten the project's go.mod
goGetUpdate ==
  /\ pc = "goget"
  /\ LET q == ModuleQuery(dependency, targetVersion)
     IN  \/ /\ Exec(<<Cmd("go get", q, TRUE, <<>>)>>)
            /\ ReturnNil("failed-dependency-update")
            /\ UNCHANGED walk
         \/ \E e \in BOOLEAN :
              /\ Exec(<<Cmd("go get", q, FALSE, <<>>),
                        Cmd("go mod tidy", <<>>, e, <<>>)>>)
              /\ walk' = [walk EXCEPT ![idx].file =
                            FileOf(PinTo(@.data, dependency, targetVersion))]
              /\ IF e THEN ReturnNil("failed-dependency-update") ELSE Goto("vet")
  /\ UNCHANGED <<osArgs, cur, version, prompts, statRes, fnVars, runVars>>

\* step 7: go vet ./...
goVet ==
  /\ pc = "vet"
  /\ \E e \in BOOLEAN :
       /\ Exec(<<Cmd("go vet ./...", <<>>, e, <<>>)>>)
       /\ IF e THEN ReturnErr("aborted-after-vet-failure", "aborted")
               ELSE Goto("test")
  /\ UNCHANGED <<osArgs, walk, cur, version, prompts, statRes, fnVars, runVars>>

\* step 8: go test ./...
goTest ==
  /\ pc = "test"
  /\ \E e \in BOOLEAN :
       /\ Exec(<<Cmd("go test ./...", <<>>, e, <<>>)>>)
       /\ IF e THEN ReturnErr("aborted-after-test-failure", "aborted")
               ELSE Goto("build")
  /\ UNCHANGED <<osArgs, walk, cur, version, prompts, statRes, fnVars, runVars>>

\* a fault: the error of the artifact removal is ignored
goBuildMut ==
  /\ pc = "build"
  /\ \E stat \in StatResults :
       /\ statRes' = stat
       /\ IF ~directoryHasFile(stat)
          THEN UNCHANGED calls /\ Goto("commit")
          ELSE \/ /\ Exec(<<Cmd("go build -o tmp-app main.go", <<>>, TRUE, <<>>)>>)
                  /\ ReturnErr("aborted-after-build-failure", "aborted")
               \/ \E e \in BOOLEAN :
                    /\ Exec(<<Cmd("go build -o tmp-app main.go", <<>>, FALSE, <<>>),
                              Cmd("rm ./tmp-app", <<>>, e, <<>>)>>)
                    /\ Goto("commit")
  /\ UNCHANGED <<osArgs, walk, cur, version, prompts, fnVars, runVars>>

\* step 9: if directoryHasFile(projectDir, "main.go"), go build then rm
goBuild ==
  /\ pc = "build"
  /\ \E stat \in StatResults :
       /\ statRes' = stat
       /\ IF ~directoryHasFile(stat)
          THEN UNCHANGED calls /\ Goto("commit")
          ELSE \/ /\ Exec(<<Cmd("go build -o tmp-app main.go", <<>>, TRUE, <<>>)>>)
                  /\ ReturnErr("aborted-after-build-failure", "aborted")
               \/ \E e \in BOOLEAN :
                    /\ Exec(<<Cmd("go build -o tmp-app main.go", <<>>, FALSE, <<>>),
                              Cmd("rm ./tmp-app", <<>>, e, <<>>)>>)
                    /\ IF e THEN ReturnErr("aborted-after-build-failure", "aborted")
                            ELSE Goto("commit")
  /\ UNCHANGED <<osArgs, walk, cur, version, prompts, fnVars, runVars>>

\* step 10: git add go.mod go.sum, then git commit -m <message>
gitCommit ==
  /\ pc = "commit"
  /\ \/ /\ Exec(<<Cmd("git add", AddPathspecs, TRUE, <<>>)>>)
        /\ ReturnNil("failed-commit")
     \/ \E e \in BOOLEAN :
          /\ Exec(<<Cmd("git add", AddPathspecs, FALSE, <<>>),
                    Cmd("git commit -m", commitMessage(dependency, targetVersion),
                        e, <<>>)>>)
          /\ IF e THEN ReturnNil("failed-commit") ELSE Goto("push")
  /\ UNCHANGED <<osArgs, walk, cur, version, prompts, statRes, fnVars, runVars>>

\* steps 11 and 12: git push, then "Done updating" and return nil
gitPush ==
  /\ pc = "push"
  /\ \E e \in BOOLEAN :
       /\ Exec(<<Cmd("git push", <<>>, e, <<>>)>>)
       /\ IF e THEN ReturnNil("failed-push") ELSE ReturnNil("succeeded")
  /\ UNCHANGED <<osArgs, walk, cur, version, prompts, statRes, fnVars, runVars>>

Next ==
  \/ main
  \/ WalkEnd
  \/ WalkError
  \/ WalkOther
  \/ Decide
  \/ Confirm
  \/ CheckCleanTree
  \/ currentGitBranch
  \/ gitCheckoutMaster
  \/ gitPull
  \/ goGetUpdate
  \/ goVet
  \/ goTest
  \/ goBuild
  \/ gitCommit
  \/ gitPush

Spec == Init /\ [][Next]_vars

\* ------------------------------------- the inspector and the decision alone
\* getDependencyVersion and shouldUpgrade applied to every bounded manifest
InitInspect ==
  /\ osArgs = <<<<"p">>, <<"r">>, Dep, Target>>
  /\ walk = [i \in Entries |-> Entry(FALSE, TRUE, "dir", Unreadable)]
  /\ idx = 1
  /\ pc = "inspect"
  /\ walkErr = "nil"
  /\ exitCode = "running"
  /\ outcome = [i \in Entries |-> "none"]
  /\ cur = 0
  /\ version = <<>>
  /\ prompts = <<>>
  /\ calls = <<>>
  /\ statRes = "unchecked"
  /\ fnIn \in [file : InspectFiles, dependency : InspectDeps,
               targetVersion : InspectTargets]
  /\ fnOut = NoOutput
  /\ run = 1
  /\ late = {}

Inspect ==
  /\ pc = "inspect"
  /\ fnOut.op = "none"
  /\ fnOut' = [op |-> "getDependencyVersion",
               version |-> getDependencyVersion(fnIn.file, fnIn.dependency),
               upgrade |-> FALSE]
  /\ UNCHANGED <<osArgs, walk, idx, pc, walkErr, exitCode, outcome, cur, cbVars, fnIn, runVars>>

DecideUpgrade ==
  /\ pc = "inspect"
  /\ fnOut.op = "none"
  /\ LET d == shouldUpgrade(fnIn.file, fnIn.dependency, fnIn.targetVersion)
     IN  fnOut' = [op |-> "shouldUpgrade", version |-> d.version,
                   upgrade |-> d.upgrade]
  /\ UNCHANGED <<osArgs, walk, idx, pc, walkErr, exitCode, outcome, cur, cbVars, fnIn, runVars>>

NextInspect == Inspect \/ DecideUpgrade

SpecInspect == InitInspect /\ [][NextInspect]_vars

\* ------------------------------------------- the program run again on a tree
\* outcomes that leave go.mod updated and the update not pushed
LateFailures ==
  {"aborted-after-vet-failure", "aborted-after-test-failure",
   "aborted-after-build-failure", "failed-commit", "failed-push"}

\* the trees of the repeated runs: directories, a traversal error, and
\* manifests that require the dependency at another version, with the
\* requirement on a line of its own or behind the require keyword
RerunEntryChoices ==
  { Entry(TRUE, FALSE, "", Unreadable),
    Entry(FALSE, TRUE, "dir", Unreadable),
    Entry(FALSE, FALSE, "go.mod", FileOf(<<"m","\n","b"," ","2">>)),
    Entry(FALSE, FALSE, "go.mod", FileOf(<<"r"," ","b"," ","2">>)) }

InitRerun ==
  /\ osArgs \in { <<<<"p">>, <<"r">>, Dep, Target>>,
                  <<<<"p">>, <<"r">>, Dep, Target, ConfirmEach>> }
  /\ walk \in [Entries -> RerunEntryChoices]
  /\ Cardinality({i \in Entries : walk[i].name = "go.mod"}) <= 1
  /\ idx = 1
  /\ pc = "main"
  /\ walkErr = "nil"
  /\ exitCode = "running"
  /\ outcome = [i \in Entries |-> "none"]
  /\ cur = 0
  /\ version = <<>>
  /\ prompts = <<>>
  /\ calls = <<>>
  /\ statRes = "unchecked"
  /\ fnIn = NoInput
  /\ fnOut = NoOutput
  /\ run = 1
  /\ late = {}

\* the process has exited and the program is started again with the same
\* arguments on the tree as the run left it
Rerun ==
  /\ pc = "exit"
  /\ run < MaxRuns
  /\ run' = run + 1
  /\ late' = late \cup {i \in Entries : outcome[i] \in LateFailures}
  /\ idx' = 1
  /\ pc' = "main"
  /\ walkErr' = "nil"
  /\ exitCode' = "running"
  /\ outcome' = [i \in Entries |-> "none"]
  /\ cur' = 0
  /\ version' = <<>>
  /\ prompts' = <<>>
  /\ calls' = <<>>
  /\ statRes' = "unchecked"
  /\ UNCHANGED <<osArgs, walk, fnVars>>

NextRerun ==
  \/ main
  \/ WalkEnd
  \/ WalkError
  \/ WalkOther
  \/ Decide
  \/ Confirm
  \/ CheckCleanTree
  \/ currentGitBranch
  \/ gitCheckoutMaster
  \/ gitPull
  \/ goGetUpdate
  \/ goVet
  \/ goTest
  \/ goBuild
  \/ gitCommit
  \/ gitPush
  \/ Rerun

SpecRerun == InitRerun /\ [][NextRerun]_vars


\* ------------------------------------------------------- vocabulary of claims
IsManifest(i) == ~walk[i].err /\ ~walk[i].isDir /\ walk[i].name = "go.mod"

\* the pipeline step (1..12) an outcome belongs to
StepOfOutcome(o) ==
  CASE o = "skipped-no-upgrade-needed" -> 1
    [] o = "skipped-by-user" -> 2
    [] o = "skipped-uncommitted-changes" -> 3
    [] o = "skipped-branch-error" -> 4
    [] o = "failed-pull" -> 5
    [] o = "failed-dependency-update" -> 6
    [] o = "aborted-after-vet-failure" -> 7
    [] o = "aborted-after-test-failure" -> 8
    [] o = "aborted-after-build-failure" -> 9
    [] o = "failed-commit" -> 10
    [] o = "failed-push" -> 11
    [] o = "succeeded" -> 12

\* the pipeline step an external command belongs to
StepOfCmd(c) ==
  CASE c = "git status --porcelain" -> 3
    [] c = "git rev-parse --abbrev-ref HEAD" -> 4
    [] c = "git checkout master" -> 4
    [] c = "git pull" -> 5
    [] c = "go get" -> 6
    [] c = "go mod tidy" -> 6
    [] c = "go vet ./..." -> 7
    [] c = "go test ./..." -> 8
    [] c = "go build -o tmp-app main.go" -> 9
    [] c = "rm ./tmp-app" -> 9
    [] c = "git add" -> 10
    [] c = "git commit -m" -> 10
    [] c = "git push" -> 11

AbortedOutcomes ==
  {"aborted-after-vet-failure", "aborted-after-test-failure",
   "aborted-after-build-failure"}

SkipFailures ==
  {"skipped-by-user", "skipped-uncommitted-changes", "skipped-branch-error",
   "failed-pull", "failed-dependency-update", "failed-commit", "failed-push"}

AbandonedOutcomes == {"skipped-no-upgrade-needed"} \cup SkipFailures \cup AbortedOutcomes

MutatingCmds ==
  {"git checkout master", "git pull", "go get", "go mod tidy",
   "go build -o tmp-app main.go", "rm ./tmp-app", "git add",
   "git commit -m", "git push"}

CmdNames == [k \in 1..Len(calls) |-> calls[k].cmd]

Invoked(c) == \E k \in 1..Len(calls) : calls[k].cmd = c

\* the walk was stopped by entry k
Stopper(k) == outcome[k] \in AbortedOutcomes \cup {"traversal-error"}

\* --------------------------------------------------------------------- claims

\* C1: pipeline short-circuit. Every command runs in the directory of the
\* project whose callback is executing; a command that failed (other than the
\* status query, whose error is dropped) is the last command of that project;
\* and once the project ended at step k, no command of a step after k, no
\* prompt (k < 2) and no entry-point check (k < 9) was executed for it.
C1_ShortCircuit ==
  /\ \A k \in 1..Len(calls) : calls[k].dir = cur
  /\ \A k \in 1..Len(calls) :
       calls[k].err /\ calls[k].cmd # "git status --porcelain" => k = Len(calls)
  /\ cur # 0 /\ outcome[cur] \in AbandonedOutcomes =>
       LET step == StepOfOutcome(outcome[cur])
       IN  /\ \A k \in 1..Len(calls) : StepOfCmd(calls[k].cmd) <= step
           /\ (step < 2 => prompts = <<>>)
           /\ (step < 9 => statRes = "unchecked")

C1_Witness ==
  /\ pc = "exit"
  /\ cur # 0
  /\ outcome[cur] = "failed-pull"
  /\ calls[Len(calls)].cmd = "git pull"
  /\ calls[Len(calls)].err

C3_Original ==
  pc = "exit" =>
    \A i \in Entries : \A j \in Entries :
      (i < j /\ outcome[i] \in SkipFailures /\ IsManifest(j))
      => outcome[j] # "none"

\* C3 amended: a skip failure does not stop the walk: the walk moves past the
\* project, and when the run has ended every later manifest has been visited
\* and evaluated unless an entry between the two stopped the walk (a traversal
\* error, or a project aborted at go vet, go test or the build).
C3_SkipContinues ==
  \A i \in Entries :
    outcome[i] \in SkipFailures =>
      /\ idx > i
      /\ walkErr # "nil" => cur > i
      /\ pc = "exit" =>
           \A j \in Entries :
             (i < j /\ IsManifest(j)) =>
               \/ outcome[j] # "none"
               \/ \E k \in (i + 1)..(j - 1) : Stopper(k)

C3_Witness ==
  \E i \in Entries : \E j \in Entries :
    /\ i < j
    /\ outcome[i] = "failed-dependency-update"
    /\ IsManifest(j)
    /\ outcome[j] = "succeeded"
    /\ pc = "exit"

\* C4: mutation invariant. A mutating command was executed only by a callback
\* whose project was found to need the upgrade and whose status query, run
\* first, reported nothing; a status query that reported changes is the only
\* command of its project.
C4_MutationInvariant ==
  /\ \A k \in 1..Len(calls) :
       calls[k].cmd \in MutatingCmds =>
         /\ version # VersionUnknown
         /\ version # VersionNotFound
         /\ version # targetVersion
         /\ k > 1
         /\ calls[1].cmd = "git status --porcelain"
         /\ calls[1].out = <<>>
  /\ \A k \in 1..Len(calls) :
       (calls[k].cmd = "git status --porcelain" /\ calls[k].out # <<>>) =>
         /\ Len(calls) = 1
         /\ pc \in {"walk", "exit"} /\ outcome[cur] = "skipped-uncommitted-changes"

C4_Witness ==
  /\ cur # 0
  /\ outcome[cur] = "skipped-uncommitted-changes"
  /\ Len(calls) = 1
  /\ calls[1].out # <<>>


\* C5: upgrade decision. shouldUpgrade answers "needs upgrade" exactly when
\* the current version it returns is neither "Unknown" nor "NotFound" and is a
\* different string from the target; equal strings never need an upgrade,
\* whatever they are.
C5_UpgradeDecision ==
  fnOut.op = "shouldUpgrade" =>
    /\ fnOut.upgrade <=>
         ( /\ fnOut.version # VersionUnknown
           /\ fnOut.version # VersionNotFound
           /\ fnOut.version # fnIn.targetVersion )
    /\ fnOut.version = fnIn.targetVersion => ~fnOut.upgrade

\* a target that sorts below the current version is an upgrade like any other
C5_Witness ==
  /\ fnOut.op = "shouldUpgrade"
  /\ fnOut.upgrade
  /\ fnOut.version = <<"v">>
  /\ fnIn.targetVersion = <<"a">>

\* the lines of a manifest, and whether one of them mentions the dependency
LinesOf(file) == Split(file.data)

Mentions(file, dep) ==
  \E k \in 1..Len(LinesOf(file)) : Contains(LinesOf(file)[k], dep)

\* C6 as stated: a manifest that cannot be read is classified "Unknown", and a
\* manifest that can be read but has no line containing the dependency name is
\* classified "NotFound".
C6_Original ==
  fnOut.op = "getDependencyVersion" =>
    /\ fnIn.file.err => fnOut.version = VersionUnknown
    /\ (~fnIn.file.err /\ ~Mentions(fnIn.file, fnIn.dependency)) =>
         fnOut.version = VersionNotFound

\* the first line of a manifest that contains the dependency name
FirstMention(file, dep) ==
  LET ls == LinesOf(file)
      k == CHOOSE n \in 1..Len(ls) :
             /\ Contains(ls[n], dep)
             /\ \A m \in 1..(n - 1) : ~Contains(ls[m], dep)
  IN  ls[k]

\* the token after the first token equal to the dependency name, "NotFound"
\* if that token is the last one
TokenAfter(parts, dep) ==
  LET k == CHOOSE n \in 1..Len(parts) :
             parts[n] = dep /\ \A m \in 1..(n - 1) : parts[m] # dep
  IN  IF k < Len(parts) THEN parts[k + 1] ELSE VersionNotFound

\* C7 as stated: when the first line that contains the dependency name has it
\* as a whitespace-delimited token, the result is the token that follows it on
\* that line ("NotFound" if it is the last token), wherever on the line it is.
C7_Original ==
  ( /\ fnOut.op = "getDependencyVersion"
    /\ ~fnIn.file.err
    /\ Mentions(fnIn.file, fnIn.dependency)
    /\ \E n \in 1..Len(Fields(FirstMention(fnIn.file, fnIn.dependency))) :
         Fields(FirstMention(fnIn.file, fnIn.dependency))[n] = fnIn.dependency )
  => fnOut.version =
       TokenAfter(Fields(FirstMention(fnIn.file, fnIn.dependency)), fnIn.dependency)

\* C8: decide is a no-op terminal. A callback whose manifest does not need the
\* upgrade (current version "Unknown", "NotFound" or equal to the target) has
\* returned at once: no prompt, no external command, no entry-point check.
C8_DecideNoOp ==
  ( /\ cur # 0
    /\ IsManifest(cur)
    /\ version \in {VersionUnknown, VersionNotFound, targetVersion} )
  => /\ prompts = <<>>
     /\ calls = <<>>
     /\ statRes = "unchecked"
     /\ pc \in {"walk", "exit"}
     /\ outcome[cur] = "skipped-no-upgrade-needed"

C8_Witness ==
  /\ cur # 0
  /\ IsManifest(cur)
  /\ confirmBeforeEach
  /\ version = targetVersion
  /\ outcome[cur] = "skipped-no-upgrade-needed"

\* C9 as stated: once the entry-point check of step 9 was made, go build has
\* been executed iff main.go exists (os.Stat succeeded); in particular not
\* when os.Stat failed for another reason than the file being absent.
C9_Original ==
  statRes # "unchecked" =>
    (Invoked("go build -o tmp-app main.go") <=> statRes = "ok")

\* the commands of a fully successful pipeline on a project already on master
HappyCommands ==
  <<"git status --porcelain", "git rev-parse --abbrev-ref HEAD", "git pull",
    "go get", "go mod tidy", "go vet ./...", "go test ./...">>
  \o (IF statRes = "ok"
      THEN <<"go build -o tmp-app main.go", "rm ./tmp-app">> ELSE <<>>)
  \o <<"git add", "git commit -m", "git push">>

\* the callback has returned for a project that needed the upgrade, was
\* confirmed if asked, had a clean tree, was on master, and for which every
\* command and the entry-point check succeeded
HappyRun ==
  /\ cur # 0
  /\ IsManifest(cur)
  /\ pc \in {"walk", "exit"}
  /\ outcome[cur] # "none"
  /\ version \notin {VersionUnknown, VersionNotFound, targetVersion}
  /\ \A k \in 1..Len(prompts) : prompts[k] \in {<<"y">>, <<"y","e","s">>}
  /\ \A k \in 1..Len(calls) : ~calls[k].err
  /\ \A k \in 1..Len(calls) :
       calls[k].cmd = "git status --porcelain" => calls[k].out = <<>>
  /\ \A k \in 1..Len(calls) :
       calls[k].cmd = "git rev-parse --abbrev-ref HEAD" =>
         TrimSpace(calls[k].out) = Master
  /\ statRes # "error"

\* C10: happy path. Such a run ends "succeeded" having executed exactly the
\* commands of HappyCommands, in that order and each once (build and removal
\* iff main.go exists, no checkout); go get asks for dependency@target and the
\* commit message contains the dependency name and the target version.
C10_HappyPath ==
  HappyRun =>
    /\ outcome[cur] = "succeeded"
    /\ CmdNames = HappyCommands
    /\ \A k \in 1..Len(calls) :
         /\ calls[k].cmd = "go get" =>
              calls[k].arg = dependency \o <<"@">> \o targetVersion
         /\ calls[k].cmd = "git commit -m" =>
              /\ Contains(calls[k].arg, dependency)
              /\ Contains(calls[k].arg, targetVersion)

C10_Witness ==
  /\ HappyRun
  /\ statRes = "ok"
  /\ Len(calls) = 12
  /\ confirmBeforeEach


\* the branch query answered, and answered a branch other than master
OffMaster(c) ==
  /\ c.cmd = "git rev-parse --abbrev-ref HEAD"
  /\ ~c.err
  /\ TrimSpace(c.out) # Master

OnMaster(c) ==
  /\ c.cmd = "git rev-parse --abbrev-ref HEAD"
  /\ ~c.err
  /\ TrimSpace(c.out) = Master

\* C11: ensure main branch. git checkout master is executed only right after
\* a branch query that succeeded and reported another branch, and such a query
\* is always followed by the checkout; a failed query or a failed checkout
\* ends the project with the branch error as its last command, so without
\* checkout resp. pull; git pull is executed only right after a query that
\* reported master or a checkout that succeeded.
C11_EnsureMaster ==
  \A k \in 1..Len(calls) :
    /\ calls[k].cmd = "git checkout master" => k > 1 /\ OffMaster(calls[k - 1])
    /\ OffMaster(calls[k]) =>
         IF k = Len(calls) THEN pc = "checkout"
         ELSE calls[k + 1].cmd = "git checkout master"
    /\ ( /\ calls[k].cmd \in {"git rev-parse --abbrev-ref HEAD", "git checkout master"}
         /\ calls[k].err )
       => /\ k = Len(calls)
          /\ pc \in {"walk", "exit"}
          /\ outcome[cur] = "skipped-branch-error"
    /\ calls[k].cmd = "git pull" =>
         /\ k > 1
         /\ \/ OnMaster(calls[k - 1])
            \/ calls[k - 1].cmd = "git checkout master" /\ ~calls[k - 1].err

C11_Witness ==
  /\ Len(calls) >= 4
  /\ OffMaster(calls[2])
  /\ calls[3].cmd = "git checkout master"
  /\ calls[4].cmd = "git pull"

\* C12: fatal traversal error. Once the callback was handed a traversal error
\* the run is over with that error as the result of the walk: no later entry
\* is ever visited; and an outcome, once given to an entry, never changes.
C12_FatalTraversal ==
  /\ [](\A i \in Entries :
          outcome[i] = "traversal-error" =>
            /\ pc = "exit"
            /\ walkErr = "traversal"
            /\ cur = i
            /\ calls = <<>>
            /\ \A j \in Entries : j > i => outcome[j] = "none")
  /\ [][\A i \in Entries : outcome[i] # "none" => outcome'[i] = outcome[i]]_vars

C12_Witness ==
  \E i \in Entries : \E j \in Entries : \E n \in Entries :
    /\ i < j /\ j < n
    /\ outcome[i] = "succeeded"
    /\ outcome[j] = "traversal-error"
    /\ IsManifest(n)
    /\ outcome[n] = "none"
    /\ pc = "exit"

\* C13: confirmation gating. Once the callback of a manifest is past the
\* prompt, it has prompted (once) iff the fourth argument is exactly
\* confirm-each and the project needs the upgrade; an answer other than "y"
\* or "yes" ended the project as skipped by the user with no command run,
\* and after "y" or "yes" the pipeline went on to the status query.
C13_ConfirmGating ==
  (cur # 0 /\ IsManifest(cur) /\ pc # "confirm") =>
    /\ Len(prompts) <= 1
    /\ Len(prompts) = 1 <=>
         ( /\ Len(osArgs) >= 5
           /\ osArgs[5] = <<"c","o","n","f","i","r","m","-","e","a","c","h">>
           /\ version \notin {VersionUnknown, VersionNotFound, osArgs[4]} )
    /\ \A k \in 1..Len(prompts) :
         IF prompts[k] \in {<<"y">>, <<"y","e","s">>}
         THEN pc = "status" \/ calls # <<>>
         ELSE /\ calls = <<>>
              /\ pc \in {"walk", "exit"}
              /\ outcome[cur] = "skipped-by-user"

C13_Witness ==
  /\ cur # 0
  /\ IsManifest(cur)
  /\ prompts = << <<"Y">> >>
  /\ outcome[cur] = "skipped-by-user"


\* how often the callback executed command c
Count(c) == Cardinality({k \in 1..Len(calls) : calls[k].cmd = c})

\* the command(s) executed at a position of the pipeline
CmdsAt(l) ==
  CASE l = "status" -> {"git status --porcelain"}
    [] l = "branch" -> {"git rev-parse --abbrev-ref HEAD"}
    [] l = "checkout" -> {"git checkout master"}
    [] l = "pull" -> {"git pull"}
    [] l = "goget" -> {"go get", "go mod tidy"}
    [] l = "vet" -> {"go vet ./..."}
    [] l = "test" -> {"go test ./..."}
    [] l = "build" -> {"go build -o tmp-app main.go", "rm ./tmp-app"}
    [] l = "commit" -> {"git add", "git commit -m"}
    [] l = "push" -> {"git push"}
    [] OTHER -> {}

\* the commands every callback has executed when it arrives at a position
RECURSIVE DoneBefore(_)
DoneBefore(l) ==
  CASE l = "branch" -> {"git status --porcelain"}
    [] l \in {"checkout", "pull"} -> DoneBefore("branch") \cup CmdsAt("branch")
    [] l = "goget" -> DoneBefore("pull") \cup CmdsAt("pull")
    [] l = "vet" -> DoneBefore("goget") \cup CmdsAt("goget")
    [] l = "test" -> DoneBefore("vet") \cup CmdsAt("vet")
    [] l = "build" -> DoneBefore("test") \cup CmdsAt("test")
    [] l = "commit" -> DoneBefore("build")
    [] l = "push" -> DoneBefore("commit") \cup CmdsAt("commit")
    [] OTHER -> {}

\* C14: no retries. A callback executes no command twice; when it arrives at
\* a step it has executed each command of the earlier unconditional steps
\* exactly once and no command of that step yet; a finished pipeline has
\* executed push exactly once; and the walk never comes back to an entry, so
\* no project gets a second callback.
C14_NoRetries ==
  /\ [](/\ \A k \in 1..Len(calls) : Count(calls[k].cmd) = 1
        /\ \A c \in DoneBefore(pc) : Count(c) = 1
        /\ \A c \in CmdsAt(pc) : Count(c) = 0
        /\ (cur # 0 /\ outcome[cur] = "succeeded") =>
             \A c \in DoneBefore("push") \cup CmdsAt("push") : Count(c) = 1)
  /\ [][cur' # cur => (cur' > cur /\ outcome[cur'] = "none" /\ calls' = <<>>)]_vars

C14_Witness ==
  /\ cur # 0
  /\ outcome[cur] = "failed-push"
  /\ Count("git push") = 1
  /\ Len(calls) = 13


\* the paths the callback has had staged: those of its successful git add
Staged ==
  UNION { {calls[k].arg[n] : n \in 1..Len(calls[k].arg)} :
            k \in {m \in 1..Len(calls) : calls[m].cmd = "git add" /\ ~calls[m].err} }

\* C15: the commit step stages go.mod and go.sum only. Whatever the callback
\* has staged is within {go.mod, go.sum}; git commit is executed only right
\* after a git add that succeeded; and a failure of either is the last
\* command of the project, which ends as a commit failure without a push.
C15_StagesOnlyManifest ==
  /\ Staged \subseteq {"go.mod", "go.sum"}
  /\ \A k \in 1..Len(calls) :
       /\ calls[k].cmd = "git add" =>
            {calls[k].arg[n] : n \in 1..Len(calls[k].arg)} \subseteq {"go.mod", "go.sum"}
       /\ calls[k].cmd = "git commit -m" =>
            k > 1 /\ calls[k - 1].cmd = "git add" /\ ~calls[k - 1].err
       /\ (calls[k].cmd \in {"git add", "git commit -m"} /\ calls[k].err) =>
            /\ k = Len(calls)
            /\ pc \in {"walk", "exit"}
            /\ outcome[cur] = "failed-commit"
            /\ ~Invoked("git push")

C15_Witness ==
  /\ Staged = {"go.mod", "go.sum"}
  /\ Invoked("git commit -m")
  /\ cur # 0
  /\ outcome[cur] = "failed-commit"


\* C16: the exit status does not depend on the outcomes. Whenever main has
\* returned, after a full walk, a traversal error or an aborted project, and
\* whatever happened to each project, the exit status is 0.
C16_ExitCode ==
  /\ pc = "exit" => exitCode = 0
  /\ pc # "exit" => exitCode = "running"

C16_Witness ==
  \E i \in Entries : \E j \in Entries :
    /\ pc = "exit"
    /\ exitCode = 0
    /\ outcome[i] = "skipped-uncommitted-changes"
    /\ outcome[j] = "aborted-after-vet-failure"

\* C17: build artifact cleanup. A go build that succeeded is directly followed
\* by rm ./tmp-app; rm is executed only there, so at most once and never
\* after a failed or skipped build, and before git add; a failed rm, like a
\* failed build, is the last command of the project, which ends aborted after
\* a build failure with the walk stopped, so without commit or push.
C17_ArtifactCleanup ==
  /\ Count("rm ./tmp-app") <= 1
  /\ \A k \in 1..Len(calls) :
       /\ (calls[k].cmd = "go build -o tmp-app main.go" /\ ~calls[k].err) =>
            k < Len(calls) /\ calls[k + 1].cmd = "rm ./tmp-app"
       /\ calls[k].cmd = "rm ./tmp-app" =>
            /\ k > 1
            /\ calls[k - 1].cmd = "go build -o tmp-app main.go"
            /\ ~calls[k - 1].err
            /\ \A m \in 1..k : calls[m].cmd \notin {"git add", "git commit -m", "git push"}
       /\ ( /\ calls[k].cmd \in {"go build -o tmp-app main.go", "rm ./tmp-app"}
            /\ calls[k].err )
          => /\ k = Len(calls)
             /\ pc = "exit"
             /\ walkErr = "aborted"
             /\ outcome[cur] = "aborted-after-build-failure"

C17_Witness ==
  /\ Len(calls) >= 2
  /\ calls[Len(calls)].cmd = "rm ./tmp-app"
  /\ calls[Len(calls)].err
  /\ cur # 0
  /\ outcome[cur] = "aborted-after-build-failure"

\* C18: the clean-tree check looks at the captured output only. The status
\* query is the first command; if its output is not empty the project is
\* skipped for uncommitted changes with nothing else run, and if it is empty
\* the pipeline goes on to the branch query, in both cases whether or not the
\* command failed.
C18_StatusOutputOnly ==
  \A k \in 1..Len(calls) :
    calls[k].cmd = "git status --porcelain" =>
      /\ k = 1
      /\ IF Len(calls[k].out) > 0
         THEN /\ Len(calls) = 1
              /\ pc \in {"walk", "exit"}
              /\ outcome[cur] = "skipped-uncommitted-changes"
         ELSE \/ Len(calls) = 1 /\ pc = "branch"
              \/ Len(calls) >= 2 /\ calls[2].cmd = "git rev-parse --abbrev-ref HEAD"

\* a status query that failed without output, and the pipeline ran to the end
C18_Witness ==
  /\ Len(calls) >= 2
  /\ calls[1].cmd = "git status --porcelain"
  /\ calls[1].err
  /\ calls[1].out = <<>>
  /\ cur # 0
  /\ outcome[cur] = "succeeded"


\* C19: first match decides. For a readable manifest with a line containing
\* the dependency name, the result is the second token of the first such line,
\* or "NotFound" if that line has fewer than two tokens, whatever the later
\* lines say.
C19_FirstMatchDecides ==
  ( /\ fnOut.op = "getDependencyVersion"
    /\ ~fnIn.file.err
    /\ Mentions(fnIn.file, fnIn.dependency) )
  => LET parts == Fields(FirstMention(fnIn.file, fnIn.dependency))
     IN  fnOut.version = IF Len(parts) > 1 THEN parts[2] ELSE VersionNotFound

\* the first line is the bare dependency name, the second pins it
C19_Witness ==
  /\ fnOut.op = "getDependencyVersion"
  /\ fnIn.dependency = <<"a">>
  /\ fnIn.file = FileOf(<<"a", "\n", "a", " ", "v">>)
  /\ fnOut.version = VersionNotFound


\* C20 as stated: a project that an earlier run left updated but not pushed
\* (stopped at go vet, go test, the build, the commit or the push) is found to
\* need no upgrade by every later run, which therefore executes no command for
\* it, in particular neither git commit nor git push.
C20_Original ==
  (cur # 0 /\ cur \in late /\ IsManifest(cur)) =>
    /\ version = targetVersion
    /\ calls = <<>>
    /\ pc \in {"walk", "exit"}
    /\ outcome[cur] = "skipped-no-upgrade-needed"

====
